---------------------------- MODULE Spec2Model ----------------------------
(***************************************************************************)
(* Model of the spinlock-guarded SPSC ring-buffer channel of               *)
(* exercise-1-spsc/src/lib.rs.                                             *)
(*                                                                         *)
(* Every atomic operation of Producer::send and Consumer::recv (all of     *)
(* them Ordering::SeqCst) and every access to a slot of message_buffer is  *)
(* one step of the thread that performs it; a branch on thread-local       *)
(* values is taken in the step of the load that precedes it.  The          *)
(* producer thread and the consumer thread interleave freely.              *)
(*                                                                         *)
(* The cursors are usize in the source; the model bounds the number of     *)
(* accepted send calls by MaxSends, so the cursors stay far below 2^64     *)
(* and are modelled as naturals.                                           *)
(***************************************************************************)
EXTENDS Naturals, Sequences, FiniteSets

\* Number of slots the model gives the ring.
RingSlots == 2

\* lib.rs:10  const BUFFER_SIZE.  The source sets 4096; the model runs the
\* same code with a ring of RingSlots slots so that it fills and wraps around.
BUFFER_SIZE == RingSlots

\* Bound on the number of send calls that pass the consumer_counter check.
MaxSends == 3

\* Bound on the number of send calls rejected with SendError.
MaxRejects == 1

\* Payloads are drawn from 1..MaxVal.
MaxVal == 2

Values == 1..MaxVal

MaxCalls == MaxSends + MaxRejects

\* Option<T>::None.  A Some(v) is [id |-> k, val |-> v], where k is the
\* number of the send call that passed v in: the identity of the moved value.
NoneVal == [id |-> 0, val |-> 0]

SomeVal(k, v) == [id |-> k, val |-> v]

VARIABLES
    \* shared state (SPSC::new)
    message_buffer,     \* [0..BUFFER_SIZE-1 -> Option<T>]
    read_index,
    write_index,
    producer_counter,
    consumer_counter,
    synchronizer,
    arc_strong,         \* strong count of the Arc holding message_buffer
    freed,              \* the Arc's contents have been dropped
    \* Producer::send locals and position
    ppc,
    p_val,
    p_write_index,
    p_read_index,
    \* Consumer::recv locals and position
    cpc,
    c_val,
    c_write_index,
    c_read_index,
    \* history of the calls
    args,               \* values passed to send, in call order
    rejects,            \* number of send calls that returned SendError
    sent,               \* values of the send calls that returned Ok
    received,           \* values of the recv calls that returned Ok
    send_result,        \* result of the last send call that returned
    recv_result,        \* result of the last recv call that returned
    recv_closed_at_call,\* producer_counter was 0 when the running recv began
    released            \* [1..MaxCalls -> number of times the value was dropped]

shared == <<message_buffer, read_index, write_index, producer_counter,
            consumer_counter, synchronizer>>
ring == <<message_buffer, read_index, write_index, producer_counter,
          consumer_counter, synchronizer, arc_strong, freed>>
plocals == <<p_val, p_write_index, p_read_index>>
clocals == <<c_val, c_write_index, c_read_index>>
phist == <<args, rejects, sent, send_result>>
chist == <<received, recv_result, recv_closed_at_call>>
vars == <<message_buffer, read_index, write_index, producer_counter,
          consumer_counter, synchronizer, arc_strong, freed,
          ppc, p_val, p_write_index, p_read_index,
          cpc, c_val, c_write_index, c_read_index,
          args, rejects, sent, received, send_result, recv_result,
          recv_closed_at_call, released>>

NoResult == [kind |-> "none", val |-> NoneVal]

\* SPSC::new followed by channel(): all slots None, cursors 0, both
\* liveness counters 1, spinlock free, one Arc clone per handle.
Init ==
    /\ message_buffer = [i \in 0..(BUFFER_SIZE - 1) |-> NoneVal]
    /\ read_index = 0
    /\ write_index = 0
    /\ producer_counter = 1
    /\ consumer_counter = 1
    /\ synchronizer = FALSE
    /\ arc_strong = 2
    /\ freed = FALSE
    /\ ppc = "idle"
    /\ p_val = NoneVal
    /\ p_write_index = 0
    /\ p_read_index = 0
    /\ cpc = "idle"
    /\ c_val = NoneVal
    /\ c_write_index = 0
    /\ c_read_index = 0
    /\ args = <<>>
    /\ rejects = 0
    /\ sent = <<>>
    /\ received = <<>>
    /\ send_result = NoResult
    /\ recv_result = NoResult
    /\ recv_closed_at_call = FALSE
    /\ released = [k \in 1..MaxCalls |-> 0]

-----------------------------------------------------------------------------
(* Producer::send *)

\* Variant of SendConsumerGone: the liveness check is left out.
SendConsumerGone_Unchecked(cc) == FALSE

\* lib.rs:83  the liveness check made once, on entry to send
SendConsumerGone(cc) == cc = 0

\* Variant of SendHasRoom: the wraparound half of the check is left out.
SendHasRoom_NoWrapCheck(w, r) == w >= r

\* Variant of SendHasRoom: <= in place of <.
SendHasRoom_OffByOne(w, r) == w >= r /\ w <= r + BUFFER_SIZE

\* Variant of SendHasRoom: one slot is never used.
SendHasRoom_Strict(w, r) == w >= r /\ w + 1 < r + BUFFER_SIZE

\* lib.rs:104  the room check
SendHasRoom(w, r) == w >= r /\ w < r + BUFFER_SIZE

\* lib.rs:106  the physical slot of a logical index
SlotOf(i) == i % BUFFER_SIZE

\* Variant of SendOkRelease: the flag is not released on the Ok path.
SendOkRelease_Forgotten == TRUE

\* lib.rs:113  synchronizer.swap(false) before return Ok(())
SendOkRelease == FALSE

\* Variant of SendRetryRelease: the flag is not released before the retry.
SendRetryRelease_Forgotten == TRUE

\* lib.rs:116  synchronizer.swap(false) at the end of the loop body
SendRetryRelease == FALSE

\* lib.rs:82-85  send(val) is called; consumer_counter is loaded; when it is 0
\* the call returns Err(SendError(val)) at once and the caller drops the value.
SendCall ==
    /\ ppc = "idle"
    /\ \E v \in Values :
         LET k == Len(args) + 1 IN
         /\ args' = Append(args, v)
         /\ IF SendConsumerGone(consumer_counter)
            THEN /\ rejects < MaxRejects
                 /\ rejects' = rejects + 1
                 /\ send_result' = [kind |-> "SendError", val |-> SomeVal(k, v)]
                 /\ released' = [released EXCEPT ![k] = @ + 1]
                 /\ UNCHANGED <<ppc, p_val>>
            ELSE /\ Len(args) - rejects < MaxSends
                 /\ ppc' = "lock"
                 /\ p_val' = SomeVal(k, v)
                 /\ send_result' = NoResult
                 /\ UNCHANGED <<rejects, released>>
    /\ UNCHANGED <<ring, p_write_index, p_read_index, cpc, clocals, sent, chist>>

\* Variant of SendLock: the flag is set once, without spinning until the
\* swap returns false.
SendLock_NoSpin ==
    /\ ppc = "lock"
    /\ synchronizer' = TRUE
    /\ ppc' = "load_w"
    /\ UNCHANGED <<message_buffer, read_index, write_index, producer_counter,
                   consumer_counter, arc_strong, freed, plocals, cpc, clocals,
                   phist, chist, released>>

\* lib.rs:88  while synchronizer.swap(true) {}
SendLock ==
    /\ ppc = "lock"
    /\ synchronizer' = TRUE
    /\ ppc' = IF synchronizer THEN "lock" ELSE "load_w"
    /\ UNCHANGED <<message_buffer, read_index, write_index, producer_counter,
                   consumer_counter, arc_strong, freed, plocals, cpc, clocals,
                   phist, chist, released>>

\* lib.rs:89
SendLoadWrite ==
    /\ ppc = "load_w"
    /\ p_write_index' = write_index
    /\ ppc' = "load_r"
    /\ UNCHANGED <<ring, p_val, p_read_index, cpc, clocals, phist, chist, released>>

\* lib.rs:90 and the branch of lib.rs:104
SendLoadRead ==
    /\ ppc = "load_r"
    /\ p_read_index' = read_index
    /\ ppc' = IF SendHasRoom(p_write_index, read_index) THEN "write" ELSE "unlock_retry"
    /\ UNCHANGED <<ring, p_val, p_write_index, cpc, clocals, phist, chist, released>>

\* lib.rs:105-109  ptr::write(Some(val)): the slot's old content is not dropped
SendWrite ==
    /\ ppc = "write"
    /\ message_buffer' = [message_buffer EXCEPT ![SlotOf(p_write_index)] = p_val]
    /\ p_val' = NoneVal
    /\ ppc' = "inc"
    /\ UNCHANGED <<read_index, write_index, producer_counter, consumer_counter,
                   synchronizer, arc_strong, freed, p_write_index, p_read_index,
                   cpc, clocals, phist, chist, released>>

\* Variant of SendInc: the cursor is advanced by two.
SendInc_ByTwo ==
    /\ ppc = "inc"
    /\ write_index' = write_index + 2
    /\ ppc' = "unlock_ok"
    /\ UNCHANGED <<message_buffer, read_index, producer_counter, consumer_counter,
                   synchronizer, arc_strong, freed, plocals, cpc, clocals,
                   phist, chist, released>>

\* lib.rs:111
SendInc ==
    /\ ppc = "inc"
    /\ write_index' = write_index + 1
    /\ ppc' = "unlock_ok"
    /\ UNCHANGED <<message_buffer, read_index, producer_counter, consumer_counter,
                   synchronizer, arc_strong, freed, plocals, cpc, clocals,
                   phist, chist, released>>

\* lib.rs:113-114  release the flag, return Ok(())
SendUnlockOk ==
    /\ ppc = "unlock_ok"
    /\ synchronizer' = SendOkRelease
    /\ ppc' = "idle"
    /\ sent' = Append(sent, SomeVal(Len(args), args[Len(args)]))
    /\ send_result' = [kind |-> "Ok", val |-> NoneVal]
    /\ UNCHANGED <<message_buffer, read_index, write_index, producer_counter,
                   consumer_counter, arc_strong, freed, plocals, cpc, clocals,
                   args, rejects, chist, released>>

\* lib.rs:116  release the flag and go round the loop
SendUnlockRetry ==
    /\ ppc = "unlock_retry"
    /\ synchronizer' = SendRetryRelease
    /\ ppc' = "lock"
    /\ UNCHANGED <<message_buffer, read_index, write_index, producer_counter,
                   consumer_counter, arc_strong, freed, plocals, cpc, clocals,
                   phist, chist, released>>

-----------------------------------------------------------------------------
(* Consumer::recv *)

\* lib.rs:129  first operand: the buffer is empty
RecvIsEmpty(r, w) == r = w

\* Variant of RecvProducerGone: the producer's liveness is not consulted.
RecvProducerGone_Unchecked(pc) == TRUE

\* Variant of RecvProducerGone: the test is inverted.
RecvProducerGone_Inverted(pc) == pc # 0

\* lib.rs:129  second operand: the producer handle is gone
RecvProducerGone(pc) == pc = 0

\* Variant of RecvHasValue: <= in place of <.
RecvHasValue_Inclusive(r, w) == r <= w

\* lib.rs:141  a value is available
RecvHasValue(r, w) == r < w

\* Variant of RecvSlotAfterTake: the value is read out and the slot kept.
RecvSlotAfterTake_Kept(old) == old

\* lib.rs:143-145  replace(None): what is left in the slot after the take
RecvSlotAfterTake(old) == NoneVal

\* Variant of RecvErrRelease: the flag is not released on the early return.
RecvErrRelease_Forgotten == TRUE

\* lib.rs:130  synchronizer.swap(false) before return Err(RecvError)
RecvErrRelease == FALSE

\* lib.rs:147  synchronizer.swap(false) before return Ok(val.unwrap())
RecvOkRelease == FALSE

\* lib.rs:151  synchronizer.swap(false) at the end of the loop body
RecvRetryRelease == FALSE

\* lib.rs:122  recv() is called
RecvCall ==
    /\ cpc = "idle"
    /\ cpc' = "lock"
    /\ recv_result' = NoResult
    /\ recv_closed_at_call' = (producer_counter = 0)
    /\ UNCHANGED <<ring, ppc, plocals, clocals, phist, received, released>>

\* lib.rs:124  while synchronizer.swap(true) {}
RecvLock ==
    /\ cpc = "lock"
    /\ synchronizer' = TRUE
    /\ cpc' = IF synchronizer THEN "lock" ELSE "load_w"
    /\ UNCHANGED <<message_buffer, read_index, write_index, producer_counter,
                   consumer_counter, arc_strong, freed, ppc, plocals, clocals,
                   phist, chist, released>>

\* lib.rs:125
RecvLoadWrite ==
    /\ cpc = "load_w"
    /\ c_write_index' = write_index
    /\ cpc' = "load_r"
    /\ UNCHANGED <<ring, ppc, plocals, c_val, c_read_index, phist, chist, released>>

\* lib.rs:126 and the branches of lib.rs:129 (first operand) and lib.rs:141
RecvLoadRead ==
    /\ cpc = "load_r"
    /\ c_read_index' = read_index
    /\ cpc' = IF RecvIsEmpty(read_index, c_write_index) THEN "load_pc"
              ELSE IF RecvHasValue(read_index, c_write_index) THEN "take"
              ELSE "unlock_retry"
    /\ UNCHANGED <<ring, ppc, plocals, c_val, c_write_index, phist, chist, released>>

\* lib.rs:129  producer_counter is loaded only when the buffer is empty
RecvLoadProducer ==
    /\ cpc = "load_pc"
    /\ cpc' = IF RecvProducerGone(producer_counter) THEN "unlock_err"
              ELSE IF RecvHasValue(c_read_index, c_write_index) THEN "take"
              ELSE "unlock_retry"
    /\ UNCHANGED <<ring, ppc, plocals, clocals, phist, chist, released>>

\* lib.rs:143-145  val = slot.replace(None)
RecvTake ==
    /\ cpc = "take"
    /\ c_val' = message_buffer[SlotOf(c_read_index)]
    /\ message_buffer' = [message_buffer EXCEPT ![SlotOf(c_read_index)] =
                              RecvSlotAfterTake(@)]
    /\ cpc' = "inc"
    /\ UNCHANGED <<read_index, write_index, producer_counter, consumer_counter,
                   synchronizer, arc_strong, freed, ppc, plocals,
                   c_write_index, c_read_index, phist, chist, released>>

\* lib.rs:146
RecvInc ==
    /\ cpc = "inc"
    /\ read_index' = read_index + 1
    /\ cpc' = "unlock_ok"
    /\ UNCHANGED <<message_buffer, write_index, producer_counter, consumer_counter,
                   synchronizer, arc_strong, freed, ppc, plocals, clocals,
                   phist, chist, released>>

\* lib.rs:147-148  release the flag, return Ok(val.unwrap()); unwrap of None
\* panics and the thread unwinds.  The receiver owns the returned value and
\* drops it.
RecvUnlockOk ==
    /\ cpc = "unlock_ok"
    /\ synchronizer' = RecvOkRelease
    /\ IF c_val = NoneVal
       THEN /\ cpc' = "panicked"
            /\ recv_result' = [kind |-> "panic", val |-> NoneVal]
            /\ UNCHANGED <<received, released>>
       ELSE /\ cpc' = "idle"
            /\ recv_result' = [kind |-> "Ok", val |-> c_val]
            /\ received' = Append(received, c_val)
            /\ released' = [released EXCEPT ![c_val.id] = @ + 1]
    /\ c_val' = NoneVal
    /\ UNCHANGED <<message_buffer, read_index, write_index, producer_counter,
                   consumer_counter, arc_strong, freed, ppc, plocals,
                   c_write_index, c_read_index, phist, recv_closed_at_call>>

\* lib.rs:130-131  release the flag, return Err(RecvError)
RecvUnlockErr ==
    /\ cpc = "unlock_err"
    /\ synchronizer' = RecvErrRelease
    /\ cpc' = "idle"
    /\ recv_result' = [kind |-> "RecvError", val |-> NoneVal]
    /\ UNCHANGED <<message_buffer, read_index, write_index, producer_counter,
                   consumer_counter, arc_strong, freed, ppc, plocals, clocals,
                   phist, received, recv_closed_at_call, released>>

\* lib.rs:151  release the flag and go round the loop
RecvUnlockRetry ==
    /\ cpc = "unlock_retry"
    /\ synchronizer' = RecvRetryRelease
    /\ cpc' = "lock"
    /\ UNCHANGED <<message_buffer, read_index, write_index, producer_counter,
                   consumer_counter, arc_strong, freed, ppc, plocals, clocals,
                   phist, chist, released>>

-----------------------------------------------------------------------------
(* Destruction of the handles *)

\* The ids of the values resident in the slots, one per occupied slot.
Resident(buf) == {i \in DOMAIN buf : buf[i] # NoneVal}

\* Dropping the array [UnsafeCell<Option<T>>; BUFFER_SIZE] drops every Some.
DropSlots(buf, rel) ==
    [k \in DOMAIN rel |->
        rel[k] + Cardinality({i \in Resident(buf) : buf[i].id = k})]

\* The handle's fields are dropped after Drop::drop returned: the Arc of
\* message_buffer loses one strong reference, and the last one drops the array.
ArcRelease ==
    /\ arc_strong' = arc_strong - 1
    /\ IF arc_strong = 1
       THEN /\ freed' = TRUE
            /\ released' = DropSlots(message_buffer, released)
       ELSE UNCHANGED <<freed, released>>

\* Variant of DropProducer: the consumer's counter is decremented.
DropProducer_WrongCounter ==
    /\ ppc = "idle"
    /\ consumer_counter > 0
    /\ consumer_counter' = consumer_counter - 1
    /\ ppc' = "drop_fields"
    /\ UNCHANGED <<message_buffer, read_index, write_index, producer_counter,
                   synchronizer, arc_strong, freed, plocals, cpc, clocals,
                   phist, chist, released>>

\* lib.rs:167-171  Drop for Producer
DropProducer ==
    /\ ppc = "idle"
    /\ producer_counter' = producer_counter - 1
    /\ ppc' = "drop_fields"
    /\ UNCHANGED <<message_buffer, read_index, write_index, consumer_counter,
                   synchronizer, arc_strong, freed, plocals, cpc, clocals,
                   phist, chist, released>>

\* lib.rs:12-20  the fields of Producer are dropped
ProducerFields ==
    /\ ppc = "drop_fields"
    /\ ArcRelease
    /\ ppc' = "dropped"
    /\ UNCHANGED <<shared, plocals, cpc, clocals, phist, chist>>

\* lib.rs:173-177  Drop for Consumer (also run when recv panicked)
DropConsumer ==
    /\ cpc \in {"idle", "panicked"}
    /\ consumer_counter' = consumer_counter - 1
    /\ cpc' = "drop_fields"
    /\ UNCHANGED <<message_buffer, read_index, write_index, producer_counter,
                   synchronizer, arc_strong, freed, ppc, plocals, clocals,
                   phist, chist, released>>

\* lib.rs:21-29  the fields of Consumer are dropped
ConsumerFields ==
    /\ cpc = "drop_fields"
    /\ ArcRelease
    /\ cpc' = "dropped"
    /\ UNCHANGED <<shared, ppc, plocals, clocals, phist, chist>>

-----------------------------------------------------------------------------

SendStep ==
    \/ SendLock
    \/ SendLoadWrite
    \/ SendLoadRead
    \/ SendWrite
    \/ SendInc
    \/ SendUnlockOk
    \/ SendUnlockRetry

RecvStep ==
    \/ RecvLock
    \/ RecvLoadWrite
    \/ RecvLoadRead
    \/ RecvLoadProducer
    \/ RecvTake
    \/ RecvInc
    \/ RecvUnlockOk
    \/ RecvUnlockErr
    \/ RecvUnlockRetry

Next ==
    \/ SendCall
    \/ SendStep
    \/ DropProducer
    \/ ProducerFields
    \/ RecvCall
    \/ RecvStep
    \/ DropConsumer
    \/ ConsumerFields

Spec == Init /\ [][Next]_vars

\* Both threads keep running: a thread whose next step can be taken takes
\* it, the producer keeps calling send and the consumer keeps calling recv
\* for as long as they hold their handle.  Nothing is assumed about who wins
\* the flag: a swap at lib.rs:88 or lib.rs:124 that finds the flag taken is a
\* step of its thread that changes nothing, so a thread may run forever and
\* find the flag taken every time.
LiveSpec ==
    /\ Spec
    /\ WF_vars(SendStep)
    /\ WF_vars(RecvStep)
    /\ WF_vars(SendCall)
    /\ WF_vars(RecvCall)
    /\ WF_vars(ProducerFields)
    /\ WF_vars(ConsumerFields)

-----------------------------------------------------------------------------
(* Properties *)

IsPrefix(s, t) ==
    /\ Len(s) <= Len(t)
    /\ \A i \in 1..Len(s) : s[i] = t[i]

InSend == ppc \in {"lock", "load_w", "load_r", "write", "inc",
                   "unlock_ok", "unlock_retry"}

InRecv == cpc \in {"lock", "load_w", "load_r", "load_pc", "take", "inc",
                   "unlock_ok", "unlock_err", "unlock_retry"}

\* The producer is between taking the flag and releasing it.
SendInCritical == ppc \in {"load_w", "load_r", "write", "inc",
                           "unlock_ok", "unlock_retry"}

\* The consumer is between taking the flag and releasing it.
RecvInCritical == cpc \in {"load_w", "load_r", "load_pc", "take", "inc",
                           "unlock_ok", "unlock_err", "unlock_retry"}

SendReturns == InSend /\ ~InSend'

RecvReturns == InRecv /\ ~InRecv'

\* C1 (FIFO): at all times the values returned by the successful recv calls
\* are, in order, a prefix of the values passed to the successful send
\* calls: nothing reordered, duplicated or skipped, also once slots are
\* reused.
C1_Fifo == IsPrefix(received, sent)

\* More values than there are slots have been received: slots were reused.
C1_Witness == Len(received) > BUFFER_SIZE /\ IsPrefix(received, sent)

\* C2 (capacity bound): read_index <= write_index <= read_index + N in every
\* reachable state, whatever the interleaving of send, recv and the drops.
C2_CapacityBound ==
    /\ read_index <= write_index
    /\ write_index <= read_index + BUFFER_SIZE

\* The ring is full after the cursors have moved on, with a handle dropped.
C2_Witness ==
    /\ write_index = read_index + BUFFER_SIZE
    /\ read_index > 0
    /\ consumer_counter = 0

\* Producer destroyed and every value sent has been received.
ClosedDrained ==
    /\ producer_counter = 0
    /\ read_index = write_index
    /\ received = sent

\* C3 (closed channel): once the producer handle is destroyed and the
\* consumer has received every value sent, the channel stays in that state,
\* no recv returns Ok any more, every recv that returns returns RecvError,
\* and every recv called does return.
C3_ClosedChannel ==
    /\ [][ClosedDrained =>
            /\ ClosedDrained'
            /\ received' = received
            /\ (RecvReturns => recv_result'.kind = "RecvError")]_vars
    /\ [](ClosedDrained /\ InRecv => <>(~InRecv))

\* A recv returned RecvError on a closed channel through which values went.
C3_Witness ==
    /\ ClosedDrained
    /\ Len(sent) > 0
    /\ recv_result.kind = "RecvError"

\* C4 (no premature close): a recv has returned RecvError only if the
\* producer handle is destroyed, every value whose send returned Ok has been
\* returned by a recv, and no value is left in the buffer.
C4_NoPrematureClose ==
    recv_result.kind = "RecvError" =>
        /\ producer_counter = 0
        /\ ~InSend
        /\ received = sent
        /\ Len(received) = write_index
        /\ Resident(message_buffer) = {}

\* The first RecvError came after more values than there are slots.
C4_Witness ==
    /\ recv_result.kind = "RecvError"
    /\ Len(received) > BUFFER_SIZE

\* C5 (rejected send): a send called when the consumer handle has been
\* destroyed returns SendError carrying the value passed in, and leaves the
\* cursors, the slots, both liveness counters and the flag as they were.
C5_RejectedSend ==
    [][(consumer_counter = 0 /\ Len(args') = Len(args) + 1) =>
        /\ ppc' = "idle"
        /\ send_result'.kind = "SendError"
        /\ send_result'.val = SomeVal(Len(args'), args'[Len(args')])
        /\ UNCHANGED shared]_vars

\* A send was rejected while values were still resident in the ring.
C5_Witness ==
    /\ send_result.kind = "SendError"
    /\ consumer_counter = 0
    /\ Resident(message_buffer) # {}
    /\ rejects > 0

\* C6 (producer terminates after the consumer left): once the consumer
\* handle is dropped, a producer that keeps calling send gets SendError from
\* some send call, whatever the state of the ring at the drop and also when
\* a send is in progress at that moment.
C6_ProducerTerminates ==
    (consumer_counter = 0 /\ producer_counter = 1)
        ~> (send_result.kind = "SendError" \/ producer_counter = 0)

\* The values that have been passed to send so far.
Passed == 1..Len(args)

\* C7 (no leak, no double release): no value is ever dropped twice; a value
\* returned by recv or handed back in a SendError is in no slot; send writes
\* only into an empty slot; the storage is torn down only after both handles
\* are destroyed, and then every value ever passed to send has been dropped
\* exactly once.
C7_NoLeakNoDoubleRelease ==
    /\ \A k \in 1..MaxCalls : released[k] <= 1
    /\ ~freed =>
         \A i \in DOMAIN message_buffer :
            message_buffer[i] # NoneVal => released[message_buffer[i].id] = 0
    /\ \A i \in 1..Len(received) :
         \A j \in DOMAIN message_buffer : message_buffer[j] # received[i]
    /\ send_result.kind = "SendError" =>
         \A j \in DOMAIN message_buffer : message_buffer[j] # send_result.val
    /\ ppc = "write" => message_buffer[SlotOf(p_write_index)] = NoneVal
    /\ freed => /\ producer_counter = 0
                /\ consumer_counter = 0
                /\ ~InSend
                /\ ~InRecv
                /\ \A k \in Passed : released[k] = 1

\* Torn down with a received value, a rejected value and a resident value.
C7_Witness ==
    /\ freed
    /\ Len(received) > 0
    /\ rejects > 0
    /\ Resident(message_buffer) # {}
    /\ \A k \in Passed : released[k] = 1

Full == write_index = read_index + BUFFER_SIZE

\* The send in progress has returned Ok.
SendReturnedOk == ~InSend /\ send_result.kind = "Ok"

\* C9 as stated (backpressure and unblocking): while the ring is full no
\* slot is written and write_index does not move; at most N more sends than
\* the consumer's read_index have returned Ok (with N = 2 the third send
\* returns only after the first value was taken); and a send in progress
\* while there is room eventually returns Ok when both threads keep running.
C9_Backpressure ==
    /\ [][Full =>
            /\ write_index' = write_index
            /\ \A i \in DOMAIN message_buffer :
                 message_buffer'[i] \in {message_buffer[i], NoneVal}]_vars
    /\ [](Len(sent) <= read_index + BUFFER_SIZE)
    /\ (InSend /\ ~Full) ~> SendReturnedOk

\* C9 as amended: the backpressure part as stated; once there is room the
\* ring no longer holds the send back: a pass of the loop that loads the
\* cursors with room never takes the retry path, and a send that holds the
\* flag with room returns Ok; the pending send returns Ok eventually if it
\* is not passed over at the flag for ever, that is, if a send that finds the
\* flag free again and again at lib.rs:88 eventually takes it.
C9_BackpressureUnlessStarved ==
    /\ [][Full =>
            /\ write_index' = write_index
            /\ \A i \in DOMAIN message_buffer :
                 message_buffer'[i] \in {message_buffer[i], NoneVal}]_vars
    /\ [](Len(sent) <= read_index + BUFFER_SIZE)
    /\ [][(ppc = "load_r" /\ ~Full) => ppc' \in {"load_r", "write"}]_vars
    /\ (SendInCritical /\ ~Full) ~> SendReturnedOk
    /\ SF_vars(SendLock) => ((InSend /\ ~Full) ~> SendReturnedOk)

\* The send of value N+1 was called with the ring full: its last pass loaded
\* the cursors N apart and took the retry path, it has written nothing, and
\* a recv has since advanced read_index, so that there is room now.
C9_Witness ==
    /\ ppc = "lock"
    /\ Len(sent) = BUFFER_SIZE
    /\ Len(args) = BUFFER_SIZE + 1
    /\ p_write_index = p_read_index + BUFFER_SIZE
    /\ write_index = p_write_index
    /\ read_index = p_read_index + 1
    /\ Len(received) = 1
    /\ consumer_counter = 1

\* C10 (immediate close on an idle channel): a recv called once the
\* producer handle is destroyed never waits for the flag and never goes
\* round the loop; it returns RecvError when the buffer is empty and
\* otherwise Ok with the oldest value; and it does return.
C10_ImmediateClose ==
    /\ [](recv_closed_at_call /\ InRecv =>
            /\ cpc # "unlock_retry"
            /\ cpc = "lock" => ~synchronizer
            /\ cpc = "unlock_err" => read_index = write_index
            /\ cpc = "unlock_ok" =>
                 /\ Len(received) < Len(sent)
                 /\ c_val = sent[Len(received) + 1])
    /\ (recv_closed_at_call /\ InRecv) ~> ~InRecv

\* A recv called after the producer's drop on a channel nothing was sent on
\* returned RecvError.
C10_Witness ==
    /\ recv_closed_at_call
    /\ recv_result.kind = "RecvError"
    /\ Len(args) = 0

\* C11 (mutual exclusion): send and recv are never inside their critical
\* sections at the same time, and whoever is inside holds the flag; so the
\* cursors a side has loaded are still the shared ones when it checks them,
\* accesses the slot and increments: the other side's steps never come in
\* between.
C11_MutualExclusion ==
    /\ ~(SendInCritical /\ RecvInCritical)
    /\ (SendInCritical \/ RecvInCritical) => synchronizer
    /\ ppc \in {"load_r", "write", "inc"} => p_write_index = write_index
    /\ ppc \in {"write", "inc", "unlock_retry"} => p_read_index = read_index
    /\ cpc \in {"load_r", "load_pc", "take", "inc"} => c_write_index = write_index
    /\ cpc \in {"load_pc", "take", "inc", "unlock_err", "unlock_retry"} =>
         c_read_index = read_index

\* The producer is about to write a slot while the consumer, having received
\* before, spins on the flag.
C11_Witness ==
    /\ ppc = "write"
    /\ cpc = "lock"
    /\ synchronizer
    /\ Len(received) > 0

\* C12 (flag released on every path): the flag is set exactly while one side
\* is inside its critical section, and that side can always take its next
\* step; the flag is cleared only by a step of the side inside, which
\* thereby leaves the critical section; and after a return or a trip round
\* the retry loop the flag is free.
C12_LockReleased ==
    /\ [](synchronizer <=> (SendInCritical \/ RecvInCritical))
    /\ [](SendInCritical =>
            ENABLED (SendLoadWrite \/ SendLoadRead \/ SendWrite \/ SendInc
                        \/ SendUnlockOk \/ SendUnlockRetry))
    /\ [](RecvInCritical =>
            ENABLED (RecvLoadWrite \/ RecvLoadRead \/ RecvLoadProducer
                        \/ RecvTake \/ RecvInc \/ RecvUnlockOk
                        \/ RecvUnlockErr \/ RecvUnlockRetry))
    /\ [][/\ (synchronizer /\ ~synchronizer') =>
               \/ (SendInCritical /\ ~SendInCritical' /\ cpc' = cpc)
               \/ (RecvInCritical /\ ~RecvInCritical' /\ ppc' = ppc)
          /\ (SendReturns \/ RecvReturns) => ~synchronizer'
          /\ (ppc = "unlock_retry" /\ ppc' # ppc) => ~synchronizer'
          /\ (cpc = "unlock_retry" /\ cpc' # cpc) => ~synchronizer']_vars

\* The running send found the ring full, released the flag and is back at
\* the head of its loop.
C12_Witness ==
    /\ ppc = "lock"
    /\ ~synchronizer
    /\ p_write_index = write_index
    /\ ~SendHasRoom(p_write_index, p_read_index)

\* C13 (slot safety): a recv that saw read_index < write_index finds its slot
\* occupied, by the value of that logical index, so the unwrap never fails;
\* a send that passed the room check finds its slot empty; and the logical
\* index a recv reads is the number of values returned so far, so none is
\* read twice.
C13_SlotSafety ==
    /\ cpc = "take" =>
         /\ message_buffer[SlotOf(c_read_index)] # NoneVal
         /\ message_buffer[SlotOf(c_read_index)].id = c_read_index + 1
         /\ c_read_index = Len(received)
    /\ cpc \in {"inc", "unlock_ok"} => c_val # NoneVal
    /\ cpc # "panicked"
    /\ recv_result.kind # "panic"
    /\ ppc = "write" =>
         /\ message_buffer[SlotOf(p_write_index)] = NoneVal
         /\ p_write_index = Len(sent)

\* A recv is about to take a value out of a slot that has been used before.
C13_Witness ==
    /\ cpc = "take"
    /\ c_read_index >= BUFFER_SIZE
    /\ message_buffer[SlotOf(c_read_index)] # NoneVal

\* No thread is between its slot access and its cursor increment.
Observable == ppc # "inc" /\ cpc # "inc"

\* C14 (slot occupancy): at every observable instant, physical slot i is
\* occupied iff i = k mod N for a logical index k with read_index <= k <
\* write_index, and it then holds the value of that index; the number of
\* occupied slots is write_index - read_index.
C14_SlotOccupancy ==
    Observable =>
        /\ \A i \in DOMAIN message_buffer :
             message_buffer[i] # NoneVal <=>
                 \E k \in read_index..(write_index - 1) : SlotOf(k) = i
        /\ \A k \in read_index..(write_index - 1) :
             message_buffer[SlotOf(k)].id = k + 1
        /\ Cardinality(Resident(message_buffer)) = write_index - read_index

\* The ring is full across the wraparound: logical indices 1..N are live.
C14_Witness ==
    /\ Observable
    /\ read_index = 1
    /\ write_index = 1 + BUFFER_SIZE
    /\ Cardinality(Resident(message_buffer)) = BUFFER_SIZE

\* C15 (single-writer cursors): write_index changes only in send's
\* fetch_add, by exactly 1, and counts the sends that returned Ok;
\* read_index changes only in recv's fetch_add, by exactly 1, and counts the
\* recvs that returned Ok; a send returning SendError or a recv returning
\* RecvError moves neither; Drop::drop of a handle changes neither cursor
\* nor any slot.
C15_SingleWriterCursors ==
    /\ [](write_index = Len(sent) + (IF ppc = "unlock_ok" THEN 1 ELSE 0))
    /\ [](read_index = Len(received) + (IF cpc = "unlock_ok" THEN 1 ELSE 0))
    /\ [][/\ write_index' # write_index =>
               /\ ppc = "inc"
               /\ write_index' = write_index + 1
               /\ cpc' = cpc
          /\ read_index' # read_index =>
               /\ cpc = "inc"
               /\ read_index' = read_index + 1
               /\ ppc' = ppc
          /\ (send_result'.kind = "SendError" /\ Len(args') # Len(args)) =>
               UNCHANGED <<write_index, read_index>>
          /\ (RecvReturns /\ recv_result'.kind = "RecvError") =>
               UNCHANGED <<write_index, read_index>>
          /\ (producer_counter' # producer_counter
                \/ consumer_counter' # consumer_counter) =>
               UNCHANGED <<write_index, read_index, message_buffer>>]_vars

\* Both cursors have gone past the ring size and both handles are dropped.
C15_Witness ==
    /\ write_index = MaxSends
    /\ read_index = MaxSends
    /\ MaxSends > BUFFER_SIZE
    /\ producer_counter = 0
    /\ consumer_counter = 0

\* C16 (one-way liveness flags): both counters are 1 at creation and only
\* ever 1 or 0; producer_counter changes only in the drop of the Producer,
\* consumer_counter only in the drop of the Consumer, each from 1 to 0 and
\* never during a send or recv; a counter that is 0 stays 0.
C16_OneWayLiveness ==
    /\ producer_counter = 1
    /\ consumer_counter = 1
    /\ [](producer_counter \in {0, 1} /\ consumer_counter \in {0, 1})
    /\ [](producer_counter = 0 <=> ppc \in {"drop_fields", "dropped"})
    /\ [](consumer_counter = 0 <=> cpc \in {"drop_fields", "dropped"})
    /\ [][/\ producer_counter' # producer_counter =>
               /\ producer_counter = 1
               /\ producer_counter' = 0
               /\ ppc = "idle"
               /\ ppc' = "drop_fields"
               /\ UNCHANGED <<consumer_counter, cpc>>
          /\ consumer_counter' # consumer_counter =>
               /\ consumer_counter = 1
               /\ consumer_counter' = 0
               /\ cpc \in {"idle", "panicked"}
               /\ cpc' = "drop_fields"
               /\ UNCHANGED <<producer_counter, ppc>>
          /\ producer_counter = 0 => producer_counter' = 0
          /\ consumer_counter = 0 => consumer_counter' = 0]_vars

\* Both handles are dropped after values went through the channel.
C16_Witness ==
    /\ producer_counter = 0
    /\ consumer_counter = 0
    /\ Len(received) > 0
    /\ Len(sent) > Len(received)

=============================================================================
